---------------------------- MODULE Spec2Model ----------------------------
(***************************************************************************)
(* A model of problog's knowledge-compilation back end                     *)
(* (src/problog/evaluator.py): the semirings, the weighted-model-counting  *)
(* evaluator over a compiled circuit (SimpleNNFEvaluator), the clause      *)
(* encoder (CNF.createFrom), the retry loop around the external compiler   *)
(* (NNF._compile) and the top-level query entry point (NNF.evaluate).      *)
(*                                                                         *)
(* Numbers.  Python floats are modelled as exact rationals <<n, d>> in     *)
(* lowest terms with d > 0.  Every weight used below is a dyadic rational  *)
(* with fewer than 31 significant bits, so the float sums and products of  *)
(* the program are exact and agree with the rational ones.                 *)
(*                                                                         *)
(* Strings.  The values of the symbolic semiring are TLA+ strings and the  *)
(* "%s" formatting of the program is string concatenation.                 *)
(***************************************************************************)
EXTENDS Integers, Sequences, FiniteSets, TLC

VARIABLES
    \* ---- SimpleNNFEvaluator (one evaluator over one circuit) ----
    nodes,        \* the circuit: node id i (1-based) is nodes[i]
    semiring,     \* Evaluator.__semiring: the name of the semiring class
    evidence,     \* Evaluator.__evidence: the pending evidence list
    probs,        \* SimpleNNFEvaluator.__probs: the weight cache
    Z,            \* SimpleNNFEvaluator.Z
    applied,      \* history: the evidence list the last initialize() read
    op,           \* history: the last call and what it returned
    \* ---- the semiring operations applied to drawn values ----
    sem,          \* the semiring whose operations are applied
    va, vb,       \* the operands
    vop, vres,    \* the last operation applied to (va, vb), and its result
    vdepth,       \* how many results were fed back as operands
    \* ---- NNF._compile (the retry loop around the external compiler) ----
    cpc,          \* where the call is: "idle", "loop", "load", "returned", "raised"
    attempts_left,
    success,
    nnf_file,     \* what /tmp/pl.nnf holds: "absent", "partial", or the call
                  \* whose clause set it was compiled from
    artifact,     \* what _load_nnf decoded in this call ("-": not called)
    calls,        \* history: the number of the current _compile call
    invocations,  \* history: check_call invocations of the current call
    fails,        \* history: those that exited non-zero
    lastExit,     \* history: the exit status of the last invocation
    \* ---- CNF.createFrom (the clause encoder) ----
    formula,      \* the circuit that is encoded
    constraints,  \* formula.constraints(): each one the clauses it encodes to
    epc,          \* where the encoder is: "idle", "nodes", "constraints", "done"
    encIndex,     \* the nodes (then the constraints) handled so far
    lines,        \* the local list lines: a line is its tokens, "3 -1 -2 0"
                  \* being <<3, -1, -2, 0>>
    cnf_lines,    \* cnf.__lines: the header, then the clause lines
    origin,       \* history: for each line, the node or constraint it is from
    \* ---- NNF.evaluate (the top-level query entry point) ----
    names,        \* the names table of the circuit nodes: (name, node, label)
    qarg,         \* the index argument of the last call
    qres,         \* what the last call returned or raised
    \* ---- callers of evaluate() running at the same time ----
    shared,       \* TRUE: the callers use one evaluator; FALSE: one each
    caches,       \* the weight cache of each evaluator instance
    thr,          \* each caller's position in evaluate() and its locals
    \* ---- ProbLog.convert / ProbLog.findPaths ----
    transformations, \* the registrations, in the order they were made
    csrc,         \* the object passed as src
    ctarget,      \* the class passed as target
    cmode,        \* the call made: "findPaths" (run to the end) or "convert"
    frames,       \* the active findPaths generators, outermost first
    found,        \* the paths the outermost generator yielded so far
    kpc,          \* "idle", "search", "done" or "crashed"
    cres,         \* what convert returned or raised
    \* ---- NNF._load_nnf (the decoder of the compiler's output) ----
    dtext,        \* the lines read so far
    dnodes,       \* the nodes of the NNF under construction
    line2node,    \* line index -> the node reference its line produced
    lnum,         \* the index the next L/A/O line gets
    rename,       \* original atom id -> node id
    dnames,       \* the names added to the NNF
    dstatus       \* "reading", or the exception that ended the decoding

evalVars == <<nodes, semiring, evidence, probs, Z, applied, op>>
semVars  == <<sem, va, vb, vop, vres, vdepth>>
compVars == <<cpc, attempts_left, success, nnf_file, artifact, calls,
              invocations, fails, lastExit>>
cnfVars  == <<formula, constraints, epc, encIndex, lines, cnf_lines, origin>>
topVars  == <<names, qarg, qres>>
concVars == <<shared, caches, thr>>
convVars == <<transformations, csrc, ctarget, cmode, frames, found, kpc, cres>>
decVars  == <<dtext, dnodes, line2node, lnum, rename, dnames, dstatus>>
vars     == <<evalVars, semVars, compVars, cnfVars, topVars, concVars, convVars,
              decVars>>

-----------------------------------------------------------------------------
(* Rational arithmetic: what float +, *, -, / compute on the weights used.  *)

Abs(x) == IF x < 0 THEN -x ELSE x

RECURSIVE GCD(_, _)
GCD(a, b) == IF b = 0 THEN a ELSE GCD(b, a % b)

Rat(n, d) ==
    LET g == GCD(Abs(n), Abs(d))
        s == IF d < 0 THEN -1 ELSE 1
    IN  <<(s * n) \div g, (s * d) \div g>>

RatAdd(a, b) ==
    LET g == GCD(a[2], b[2])
    IN  Rat(a[1] * (b[2] \div g) + b[1] * (a[2] \div g), (a[2] \div g) * b[2])

RatMul(a, b) ==
    LET g1 == GCD(Abs(a[1]), b[2])
        g2 == GCD(Abs(b[1]), a[2])
    IN  Rat((a[1] \div g1) * (b[1] \div g2), (a[2] \div g2) * (b[2] \div g1))

RatNeg(a) == <<-a[1], a[2]>>

RatSub(a, b) == RatAdd(a, RatNeg(b))

\* a / b for b /= 0
RatDiv(a, b) ==
    RatMul(a, IF b[1] < 0 THEN <<-b[2], -b[1]>> ELSE <<b[2], b[1]>>)

RECURSIVE FracLess(_, _, _, _)
\* a/b < c/d for a, c >= 0 and b, d > 0, by integer parts and remainders
FracLess(a, b, c, d) ==
    IF a \div b /= c \div d THEN a \div b < c \div d
    ELSE IF c % d = 0 THEN FALSE
    ELSE IF a % b = 0 THEN TRUE
    ELSE FracLess(d, c % d, b, a % b)

\* a < b
RatLess(a, b) ==
    IF a[1] < 0 THEN (b[1] >= 0 \/ FracLess(-b[1], b[2], -a[1], a[2]))
    ELSE (b[1] > 0 /\ FracLess(a[1], a[2], b[1], b[2]))

RatLeq(a, b) == ~RatLess(b, a)

-----------------------------------------------------------------------------
(* The semirings.                                                           *)

Probability == "SemiringProbability"
Symbolic    == "SemiringSymbolic"
Semirings   == {Probability, Symbolic}

SemiringProbability_one  == <<1, 1>>
SemiringProbability_zero == <<0, 1>>

SemiringProbability_plus(a, b) == RatAdd(a, b)

SemiringProbability_times(a, b) == RatMul(a, b)

SemiringProbability_negate(a) == RatSub(<<1, 1>>, a)

\* a / Z; Python raises ZeroDivisionError for Z = 0 (see normalizeRaises)
SemiringProbability_normalize(a, Zv) == RatDiv(a, Zv)

SemiringSymbolic_one  == "1"
SemiringSymbolic_zero == "0"

SemiringSymbolic_plus(a, b) ==
    IF a = "0" THEN b
    ELSE IF b = "0" THEN a
    ELSE "(" \o a \o " + " \o b \o ")"

\* mutant: only the left operand is tested against "0"
SemiringSymbolic_times_leftZeroOnly(a, b) ==
    IF a = "0" THEN "0"
    ELSE IF a = "1" THEN b
    ELSE IF b = "1" THEN a
    ELSE a \o "*" \o b

SemiringSymbolic_times(a, b) ==
    IF a = "0" \/ b = "0" THEN "0"
    ELSE IF a = "1" THEN b
    ELSE IF b = "1" THEN a
    ELSE a \o "*" \o b

SemiringSymbolic_negate(a) ==
    IF a = "0" THEN "1"
    ELSE IF a = "1" THEN "0"
    ELSE "(1-" \o a \o ")"

SemiringSymbolic_normalize(a, Zv) ==
    IF Zv = "1" THEN a ELSE a \o " / " \o Zv

\* dispatch on the semiring object
one(sr)  == IF sr = Probability THEN SemiringProbability_one ELSE SemiringSymbolic_one
zero(sr) == IF sr = Probability THEN SemiringProbability_zero ELSE SemiringSymbolic_zero

plus(sr, a, b) ==
    IF sr = Probability THEN SemiringProbability_plus(a, b)
    ELSE SemiringSymbolic_plus(a, b)

times(sr, a, b) ==
    IF sr = Probability THEN SemiringProbability_times(a, b)
    ELSE SemiringSymbolic_times(a, b)

negate(sr, a) ==
    IF sr = Probability THEN SemiringProbability_negate(a)
    ELSE SemiringSymbolic_negate(a)

normalize(sr, a, Zv) ==
    IF sr = Probability THEN SemiringProbability_normalize(a, Zv)
    ELSE SemiringSymbolic_normalize(a, Zv)

\* a / Z raises ZeroDivisionError exactly when Z is the float zero
normalizeRaises(sr, Zv) == sr = Probability /\ Zv[1] = 0

-----------------------------------------------------------------------------
(* The circuit (the NNF formula the evaluator walks).                       *)
(* A node is [type, children, weight]: type is the node class name         *)
(* ("atom", "conj", "disj"), children the signed child references of a     *)
(* conj/disj, weight the declared weight of an atom.                       *)

Atom(w)        == [type |-> "atom", children |-> <<>>, weight |-> w]
Inner(t, cs)   == [type |-> t, children |-> cs, weight |-> "-"]

\* len(formula): node ids are 1..len, and id len is the root
len(nd) == Len(nd)

\* formula._getNode(key)
getNode(nd, key) == nd[key]

AtomsOf(nd) == {i \in 1..Len(nd) : nd[i].type = "atom"}

IsAtomRef(nd, r) == r /= 0 /\ Abs(r) \in AtomsOf(nd)

-----------------------------------------------------------------------------
(* SimpleNNFEvaluator.  The cache __probs is a function from the node ids   *)
(* it holds to (pos, neg) pairs; __probs.get(k) is None off its domain.     *)

EmptyCache == <<>>

\* SimpleNNFEvaluator.setWeight
setWeight(pr, index, pos, neg) ==
    [k \in (DOMAIN pr) \cup {index} |-> IF k = index THEN <<pos, neg>> ELSE pr[k]]

\* SemiringProbability.value / SemiringSymbolic.value on a declared weight:
\* a float is returned as it is, str() of a string is that string
value(sr, a) == a

\* formula.extractWeights(semiring): every atom's (w, negate(w)) pair
extractWeights(nd, sr) ==
    [k \in AtomsOf(nd) |->
        <<value(sr, nd[k].weight), negate(sr, value(sr, nd[k].weight))>>]

\* The walk of getWeight(index) raises (the assert of _calculateWeight) when it
\* meets an atom that the cache does not hold.
RECURSIVE WalkRaises(_, _, _)
WalkRaises(nd, pr, index) ==
    /\ index /= 0
    /\ Abs(index) \notin DOMAIN pr
    /\ \/ nd[Abs(index)].type = "atom"
       \/ \E j \in 1..Len(nd[Abs(index)].children) :
              WalkRaises(nd, pr, nd[Abs(index)].children[j])

RECURSIVE getWeight(_, _, _, _)
\* the fold of _calculateWeight over childprobs, left to right
RECURSIVE FoldWeights(_, _, _, _, _, _, _)
FoldWeights(nd, sr, pr, t, cs, j, p) ==
    IF j > Len(cs) THEN p
    ELSE FoldWeights(nd, sr, pr, t, cs, j + 1,
                     IF t = "conj" THEN times(sr, p, getWeight(nd, sr, pr, cs[j]))
                     ELSE plus(sr, p, getWeight(nd, sr, pr, cs[j])))

\* SimpleNNFEvaluator._calculateWeight (key > 0, node not an atom)
calculateWeight(nd, sr, pr, key) ==
    LET node == getNode(nd, key)
    IN  FoldWeights(nd, sr, pr, node.type, node.children, 1,
                    IF node.type = "conj" THEN one(sr) ELSE zero(sr))

\* SimpleNNFEvaluator.getWeight
getWeight(nd, sr, pr, index) ==
    IF index = 0 THEN one(sr)
    ELSE LET pos_neg == IF Abs(index) \in DOMAIN pr
                        THEN pr[Abs(index)]
                        ELSE LET p == calculateWeight(nd, sr, pr, Abs(index))
                             IN  <<p, negate(sr, p)>>
         IN  IF index < 0 THEN pos_neg[2] ELSE pos_neg[1]

\* mutant: the sign of the evidence is ignored
setEvidence_ignoresSign(sr, pr, index, val) ==
    setWeight(pr, index, one(sr), zero(sr))

\* SimpleNNFEvaluator.setEvidence
setEvidence(sr, pr, index, val) ==
    LET pos == one(sr)
        neg == zero(sr)
    IN  IF val THEN setWeight(pr, index, pos, neg)
        ELSE setWeight(pr, index, neg, pos)

\* mutant: the entry is pinned to the unit/annihilator pair
setValue_unitPair(nd, sr, pr, index, val) == setEvidence(sr, pr, index, val)

\* SimpleNNFEvaluator.setValue
setValue(nd, sr, pr, index, val) ==
    IF val THEN setWeight(pr, index, getWeight(nd, sr, pr, index), zero(sr))
    ELSE setWeight(pr, index, zero(sr), getWeight(nd, sr, pr, -index))

\* mutant: the captured pair is not written back
resetValue_noRestore(pr, index, pos, neg) == pr

\* SimpleNNFEvaluator.resetValue
resetValue(pr, index, pos, neg) == setWeight(pr, index, pos, neg)

\* the loop of initialize over iterEvidence()
RECURSIVE PinEvidence(_, _, _, _)
PinEvidence(sr, pr, evs, j) ==
    IF j > Len(evs) THEN pr
    ELSE PinEvidence(sr, setEvidence(sr, pr, Abs(evs[j]), evs[j] > 0), evs, j + 1)

\* the cache that initialize() leaves
initializedCache(nd, sr, evs) == PinEvidence(sr, extractWeights(nd, sr), evs, 1)

\* mutant: Z is computed from the declared weights, before evidence is pinned
getZ_beforeEvidence(nd, sr, pr) == getWeight(nd, sr, extractWeights(nd, sr), len(nd))

\* SimpleNNFEvaluator.getZ
getZ(nd, sr, pr) == getWeight(nd, sr, pr, len(nd))

\* SimpleNNFEvaluator.evaluate, from a cache on which the first walk does not
\* raise: the cache it leaves, and the raw weight of the root it computed
evaluateRun(nd, sr, pr, node) ==
    LET p      == getWeight(nd, sr, pr, Abs(node))
        n      == getWeight(nd, sr, pr, -Abs(node))
        pinned == setValue(nd, sr, pr, Abs(node), node > 0)
        result == getWeight(nd, sr, pinned, len(nd))
    IN  [pinned |-> pinned,
         result |-> result,
         cache  |-> resetValue(pinned, Abs(node), p, n)]

\* what a call returns: its value (a one-element set; empty for None), or the
\* exception it raised
Returned(v) == [raised |-> "", value |-> {v}]
ReturnedNone == [raised |-> "", value |-> {}]
Raised(e)   == [raised |-> e, value |-> {}]

\* the value (or exception) of evaluate(node) on evaluator state (pr, Zv)
evaluateResult(nd, sr, pr, Zv, node) ==
    IF WalkRaises(nd, pr, Abs(node)) THEN Raised("AssertionError")
    ELSE IF normalizeRaises(sr, Zv) THEN Raised("ZeroDivisionError")
    ELSE Returned(normalize(sr, evaluateRun(nd, sr, pr, node).result, Zv))

-----------------------------------------------------------------------------
(* The circuits and calls the evaluator is run on.                          *)

\* bound: the longest pending evidence list
MaxEvidence == 1

\* declared atom weights, by order of declaration: floats in [0,1] /
\* expression strings
AtomWeights(sr) ==
    IF sr = Probability THEN <<(<<1, 2>>), (<<1, 2097152>>)>> ELSE <<"a", "b">>

\* Circuit shapes, in construction order (atom weights are filled in by
\* Circuits).  The first three are what the compiler emits: smooth (the children
\* of a disj mention the same atoms) and decomposable, with every atom below the
\* root.  The others are circuits a caller can build by hand.
Shapes ==
    { \* a AND b
      <<Atom("-"), Atom("-"), Inner("conj", <<1, 2>>)>>,
      \* (a OR -a) AND b, the smoothing gadget, with the atom b declared late
      <<Atom("-"), Inner("disj", <<1, -1>>), Atom("-"), Inner("conj", <<2, 3>>)>>,
      \* (a AND b) OR (-a AND b)
      <<Atom("-"), Atom("-"), Inner("conj", <<1, 2>>), Inner("conj", <<-1, 2>>),
        Inner("disj", <<3, 4>>)>>,
      \* (a AND -b) OR b: not smooth
      <<Atom("-"), Atom("-"), Inner("conj", <<1, -2>>), Inner("disj", <<3, 2>>)>>,
      \* a OR b: neither smooth nor deterministic
      <<Atom("-"), Atom("-"), Inner("disj", <<1, 2>>)>>,
      \* no AND/OR node: the root is the atom b
      <<Atom("-"), Atom("-")>> }

AtomPositions(sh) == {i \in 1..Len(sh) : sh[i].type = "atom"}

\* the k-th atom declared gets the k-th weight
WithWeights(sh, w) ==
    [i \in 1..Len(sh) |->
        IF sh[i].type = "atom"
        THEN Atom(w[Cardinality({j \in AtomPositions(sh) : j <= i})])
        ELSE sh[i]]

\* every shape, its atoms declared with distinct weights
Circuits(sr) == {WithWeights(sh, AtomWeights(sr)) : sh \in Shapes}

\* the same, with the weights in either order
CircuitsEitherOrder(sr) ==
    Circuits(sr) \cup
    {WithWeights(sh, <<AtomWeights(sr)[2], AtomWeights(sr)[1]>>) : sh \in Shapes}

\* the atoms mentioned at or below a reference
RECURSIVE Mentions(_, _)
Mentions(nd, r) ==
    IF nd[Abs(r)].type = "atom" THEN {Abs(r)}
    ELSE UNION {Mentions(nd, nd[Abs(r)].children[j]) :
                    j \in 1..Len(nd[Abs(r)].children)}

\* What the compiler guarantees of its output (-smoothNNF, and d-DNNF):
\* the children of a disj mention the same atoms, the children of a conj
\* mention disjoint atoms, and every atom of the circuit is below the root.
IsCompiled(nd) ==
    /\ \A i \in 1..Len(nd) : \A j, k \in 1..Len(nd[i].children) :
          /\ nd[i].type = "disj" =>
                Mentions(nd, nd[i].children[j]) = Mentions(nd, nd[i].children[k])
          /\ nd[i].type = "conj" /\ j /= k =>
                Mentions(nd, nd[i].children[j]) \cap Mentions(nd, nd[i].children[k]) = {}
    /\ Mentions(nd, Len(nd)) = AtomsOf(nd)

\* references a caller passes: NodeRefs to evaluate, EvidenceRefs to addEvidence
NodeRefs(nd)     == {r \in -Len(nd)..Len(nd) : r /= 0}
EvidenceRefs(nd) == {r \in NodeRefs(nd) : IsAtomRef(nd, r)}

Call(name, arg, ret) == [name |-> name, arg |-> arg, ret |-> ret]

-----------------------------------------------------------------------------
(* The evaluator's operations.                                              *)

SemIdle ==
    /\ sem = "-" /\ va = "-" /\ vb = "-" /\ vop = "-" /\ vres = "-" /\ vdepth = 0

CompIdle ==
    /\ cpc = "idle" /\ attempts_left = 0 /\ success = FALSE /\ nnf_file = "absent"
    /\ artifact = "-" /\ calls = 0 /\ invocations = 0 /\ fails = 0 /\ lastExit = 0

CnfIdle ==
    /\ formula = <<>> /\ constraints = <<>> /\ epc = "idle" /\ encIndex = 0
    /\ lines = <<>> /\ cnf_lines = <<>> /\ origin = <<>>

\* the index argument of NNF.evaluate: None, or a node reference
NoIndex     == [given |-> FALSE, ref |-> 0]
Index(r)    == [given |-> TRUE, ref |-> r]

TopIdle ==
    /\ names = <<>> /\ qarg = NoIndex /\ qres = [raised |-> "-", value |-> {}]

ConcIdle ==
    /\ shared = FALSE /\ caches = <<>> /\ thr = <<>>

NoObject == [kinds |-> {}, trace |-> <<>>]

ConvIdle ==
    /\ transformations = <<>> /\ csrc = NoObject /\ ctarget = "-" /\ cmode = "-"
    /\ frames = <<>> /\ found = <<>> /\ kpc = "idle"
    /\ cres = [raised |-> "-", value |-> {}]

DecIdle ==
    /\ dtext = <<>> /\ dnodes = <<>> /\ line2node = <<>> /\ lnum = 0
    /\ rename = <<>> /\ dnames = <<>> /\ dstatus = "-"

\* the variables of the other components, which no operation here touches
Others(own) ==
    /\ IF own = "dec" THEN TRUE ELSE UNCHANGED decVars
    /\ IF own = "conv" THEN TRUE ELSE UNCHANGED convVars
    /\ IF own = "conc" THEN TRUE ELSE UNCHANGED concVars
    /\ IF own = "top" THEN TRUE ELSE UNCHANGED topVars
    /\ IF own = "cnf" THEN TRUE ELSE UNCHANGED cnfVars
    /\ IF own = "eval" THEN TRUE ELSE UNCHANGED evalVars
    /\ IF own = "sem" THEN TRUE ELSE UNCHANGED semVars
    /\ IF own = "comp" THEN TRUE ELSE UNCHANGED compVars

\* SimpleNNFEvaluator.__init__: empty cache and evidence list.  Z is the int 0,
\* which no call reads before initialize() overwrites it (every walk raises on
\* the empty cache first); it is written here as the semiring's zero.
InitEval ==
    /\ semiring \in Semirings
    /\ nodes \in Circuits(semiring)
    /\ evidence = <<>>
    /\ probs = EmptyCache
    /\ Z = zero(semiring)
    /\ applied = <<>>
    /\ op = Call("__init__", 0, ReturnedNone)
    /\ SemIdle
    /\ CompIdle
    /\ CnfIdle
    /\ TopIdle
    /\ ConcIdle
    /\ ConvIdle
    /\ DecIdle

\* mutant: the evidence is also pinned in the cache at once
addEvidence_eager(node) ==
    /\ Len(evidence) < MaxEvidence
    /\ evidence' = Append(evidence, node)
    /\ probs' = setEvidence(semiring, probs, Abs(node), node > 0)
    /\ op' = Call("addEvidence", node, ReturnedNone)
    /\ UNCHANGED <<nodes, semiring, Z, applied>> /\ Others("eval")

\* Evaluator.addEvidence
addEvidence(node) ==
    /\ Len(evidence) < MaxEvidence
    /\ evidence' = Append(evidence, node)
    /\ op' = Call("addEvidence", node, ReturnedNone)
    /\ UNCHANGED <<nodes, semiring, probs, Z, applied>> /\ Others("eval")

\* Evaluator.clearEvidence
clearEvidence ==
    /\ evidence' = <<>>
    /\ op' = Call("clearEvidence", 0, ReturnedNone)
    /\ UNCHANGED <<nodes, semiring, probs, Z, applied>> /\ Others("eval")

\* SimpleNNFEvaluator.initialize, and propagate, which calls it
initializeAs(name) ==
    LET pr == initializedCache(nodes, semiring, evidence)
    IN  /\ probs' = pr
        /\ Z' = getZ(nodes, semiring, pr)
        /\ applied' = evidence
        /\ op' = Call(name, 0, ReturnedNone)
        /\ UNCHANGED <<nodes, semiring, evidence>> /\ Others("eval")

initialize == initializeAs("initialize")

propagate == initializeAs("propagate")

\* SimpleNNFEvaluator.evaluate
evaluate(node) ==
    /\ op' = Call("evaluate", node, evaluateResult(nodes, semiring, probs, Z, node))
    /\ probs' = IF WalkRaises(nodes, probs, Abs(node)) THEN probs
                ELSE evaluateRun(nodes, semiring, probs, node).cache
    /\ UNCHANGED <<nodes, semiring, evidence, Z, applied>> /\ Others("eval")

Next ==
    \/ \E node \in EvidenceRefs(nodes) : addEvidence(node)
    \/ clearEvidence
    \/ initialize
    \/ propagate
    \/ \E node \in NodeRefs(nodes) : evaluate(node)

Spec == InitEval /\ [][Next]_vars

-----------------------------------------------------------------------------
(* Properties of the evaluator.                                             *)

\* the cache was filled by initialize()
Initialized == AtomsOf(nodes) \subseteq DOMAIN probs

\* the last call was evaluate(q) on an atom q, and it returned a value
EvaluatedAtom(call) ==
    /\ call.name = "evaluate"
    /\ IsAtomRef(nodes, call.arg)
    /\ call.ret.raised = ""

\* the pair setEvidence writes for an evidence reference
PinOf(sr, ev) == IF ev > 0 THEN <<one(sr), zero(sr)>> ELSE <<zero(sr), one(sr)>>

\* every atom named in the evidence list evs holds the pin of its last mention
Pinned(pr, evs) ==
    \A j \in 1..Len(evs) :
        (\A k \in (j + 1)..Len(evs) : Abs(evs[k]) /= Abs(evs[j]))
            => pr[Abs(evs[j])] = PinOf(semiring, evs[j])

\* C1: when evaluate(q) on an atom q (either sign, query or evidence atom) of an
\* initialized evaluator returns, the cache is the cache before the call: the
\* entry of |q| is the captured (p, n) pair again, no other entry changed, the
\* evidence atoms are still pinned, and Z is unchanged.  As this holds of every
\* such step, it holds after any sequence of them.
C1_EvaluateRestoresCache ==
    [][(Initialized /\ EvaluatedAtom(op'))
          => /\ probs'[Abs(op'.arg)] =
                    <<getWeight(nodes, semiring, probs, Abs(op'.arg)),
                      getWeight(nodes, semiring, probs, -Abs(op'.arg))>>
             /\ probs' = probs
             /\ Pinned(probs', applied')
             /\ Z' = Z]_vars

\* C1 witness: evaluate(q) returned, q the negative reference to an atom that
\* is pinned as evidence
C1_Witness ==
    /\ Initialized
    /\ EvaluatedAtom(op)
    /\ op.arg < 0
    /\ Len(applied) > 0
    /\ Abs(applied[1]) = Abs(op.arg)

\* all the evidence on atom a in the list evs has the sign of ev
OnlyEvidence(evs, ev) ==
    /\ \E j \in 1..Len(evs) : evs[j] = ev
    /\ \A j \in 1..Len(evs) : Abs(evs[j]) = Abs(ev) => evs[j] = ev

\* the cache holds atom entries only: no AND/OR node was queried since
\* initialize()
AtomCache == DOMAIN probs = AtomsOf(nodes)

\* C2: on a compiled circuit, under the probability semiring and with Z not
\* zero, evaluate(a) returns exactly 1.0 when a was pinned as positive evidence
\* by initialize(), and exactly 0.0 when it was pinned as negative evidence.
C2_EvidenceConditioning ==
    (/\ semiring = Probability
     /\ IsCompiled(nodes)
     /\ AtomCache
     /\ EvaluatedAtom(op)
     /\ op.arg > 0)
        => /\ OnlyEvidence(applied, op.arg) => op.ret = Returned(<<1, 1>>)
           /\ OnlyEvidence(applied, -op.arg) => op.ret = Returned(<<0, 1>>)

\* C2 witness: evaluate(a) returned 0.0 for an atom pinned as negative evidence
C2_Witness ==
    /\ semiring = Probability
    /\ IsCompiled(nodes)
    /\ AtomCache
    /\ EvaluatedAtom(op)
    /\ op.arg > 0
    /\ OnlyEvidence(applied, -op.arg)
    /\ op.ret = Returned(<<0, 1>>)

\* the value (or exception) of evaluate(q) for every reference q, on a state
Answers(pr, Zv) ==
    [q \in NodeRefs(nodes) |-> evaluateResult(nodes, semiring, pr, Zv, q)]

\* C4: addEvidence and clearEvidence change the pending evidence list only; the
\* cache and Z, and so the value of every evaluate(q), are as before; the list
\* takes effect at the next initialize()/propagate(), which pins exactly the
\* references pending at that time and leaves the other atoms at their
\* declared weights.
C4_EvidenceIsPending ==
    [][/\ op'.name \in {"addEvidence", "clearEvidence"}
          => /\ probs' = probs
             /\ Z' = Z
             /\ Answers(probs', Z') = Answers(probs, Z)
       /\ op'.name \in {"initialize", "propagate"}
          => /\ Pinned(probs', evidence)
             /\ \A a \in AtomsOf(nodes) :
                   (\A j \in 1..Len(evidence) : Abs(evidence[j]) /= a)
                       => probs'[a] = extractWeights(nodes, semiring)[a]
             /\ DOMAIN probs' = AtomsOf(nodes)]_vars

\* C4 witness: evidence was added to an initialized evaluator whose cache does
\* not pin it yet
C4_Witness ==
    /\ Initialized
    /\ op.name = "addEvidence"
    /\ probs[Abs(op.arg)] /= PinOf(semiring, op.arg)
    /\ applied /= evidence

\* C14: the weight cache holds entries for atom ids only
C14_CacheHoldsAtomsOnly == DOMAIN probs \subseteq AtomsOf(nodes)

\* the cache as the last initialize() left it
FreshCache == initializedCache(nodes, semiring, applied)

\* C15: on an initialized evaluator the value evaluate(q) returns is the value
\* it returns right after initialize(), whatever evaluate calls were made
\* since
C15_HistoryIndependence ==
    (Initialized /\ op.name = "evaluate")
        => op.ret = evaluateResult(nodes, semiring, FreshCache, Z, op.arg)

\* C17: once initialize() has run, Z is weight(root) on the cache with all the
\* evidence of that initialize() pinned, and in every later state Z is still
\* what weight(root) returns on the cache of that state
C17_ZIsRootWeight ==
    Initialized
        => /\ Z = getWeight(nodes, semiring, FreshCache, len(nodes))
           /\ Pinned(FreshCache, applied)
           /\ Z = getWeight(nodes, semiring, probs, len(nodes))

\* C17 witness: evidence was applied, and an AND/OR node and then an atom were
\* queried since (the cache holds an AND/OR entry)
C17_Witness ==
    /\ Initialized
    /\ Len(applied) > 0
    /\ DOMAIN probs /= AtomsOf(nodes)
    /\ op.name = "evaluate"
    /\ IsAtomRef(nodes, op.arg)
    /\ Z /= getWeight(nodes, semiring, extractWeights(nodes, semiring), len(nodes))

-----------------------------------------------------------------------------
(* The semiring operations, applied to drawn values and to their own        *)
(* results.                                                                 *)

\* bound: how many times a result is fed back as an operand
MaxDepth == 2

\* the values drawn: floats / expression strings
DrawnValues(sr) ==
    IF sr = Probability THEN {<<0, 1>>, <<1, 1>>, <<1, 2>>, <<3, 4>>}
    ELSE {"0", "1", "a", "b"}

EvalIdle ==
    /\ nodes = <<>> /\ semiring = "-" /\ evidence = <<>> /\ probs = EmptyCache
    /\ Z = "-" /\ applied = <<>> /\ op = Call("-", 0, ReturnedNone)

InitSemiring ==
    /\ sem \in Semirings
    /\ va \in DrawnValues(sem)
    /\ vb \in DrawnValues(sem)
    /\ vop = "-"
    /\ vres = va
    /\ vdepth = 0
    /\ EvalIdle
    /\ CompIdle
    /\ CnfIdle
    /\ TopIdle
    /\ ConcIdle
    /\ ConvIdle
    /\ DecIdle

Applied(name, result) ==
    /\ vop' = name
    /\ vres' = result
    /\ UNCHANGED <<sem, va, vb, vdepth>> /\ Others("sem")

ApplyOne       == Applied("one", one(sem))
ApplyZero      == Applied("zero", zero(sem))
ApplyPlus      == Applied("plus", plus(sem, va, vb))
ApplyTimes     == Applied("times", times(sem, va, vb))
ApplyNegate    == Applied("negate", negate(sem, va))
ApplyNormalize == ~normalizeRaises(sem, vb) /\ Applied("normalize", normalize(sem, va, vb))

\* the result of the last operation becomes the left operand
FeedLeft ==
    /\ vop /= "-"
    /\ vdepth < MaxDepth
    /\ va' = vres
    /\ vop' = "-"
    /\ vdepth' = vdepth + 1
    /\ UNCHANGED <<sem, vb, vres>> /\ Others("sem")

\* the result of the last operation becomes the right operand
FeedRight ==
    /\ vop /= "-"
    /\ vdepth < MaxDepth
    /\ vb' = vres
    /\ vop' = "-"
    /\ vdepth' = vdepth + 1
    /\ UNCHANGED <<sem, va, vres>> /\ Others("sem")

NextSemiring ==
    \/ ApplyOne
    \/ ApplyZero
    \/ ApplyPlus
    \/ ApplyTimes
    \/ ApplyNegate
    \/ ApplyNormalize
    \/ FeedLeft
    \/ FeedRight

SpecSemiring == InitSemiring /\ [][NextSemiring]_vars

\* C10: in both semirings plus(a, zero()) = a, times(a, one()) = a and
\* times(a, zero()) = zero(); in the symbolic semiring times("0", x) = "0",
\* plus("1", "0") = "1" and normalize(a, "1") = a.
C10_IdentityLaws ==
    /\ vop = "plus" /\ vb = zero(sem) => vres = va
    /\ vop = "times" /\ vb = one(sem) => vres = va
    /\ vop = "times" /\ vb = zero(sem) => vres = zero(sem)
    /\ sem = Symbolic =>
          /\ vop = "times" /\ va = "0" => vres = "0"
          /\ vop = "plus" /\ va = "1" /\ vb = "0" => vres = "1"
          /\ vop = "normalize" /\ vb = "1" => vres = va

\* C10 witness: times(a, zero()) was applied in the symbolic semiring to a
\* compound expression a
C10_Witness ==
    /\ sem = Symbolic
    /\ vop = "times"
    /\ vb = "0"
    /\ vdepth > 0
    /\ va \notin {"0", "1", "a", "b"}
    /\ vres = "0"

\* C11: in both semirings plus(a, b) = plus(b, a) and times(a, b) = times(b, a)
C11_Commutativity ==
    /\ vop = "plus" => vres = plus(sem, vb, va)
    /\ vop = "times" => vres = times(sem, vb, va)

-----------------------------------------------------------------------------
(* NNF._compile: the external compiler is run until it exits with status 0, *)
(* at most Attempts times; then its output file is decoded.                 *)

\* attempts_left = 10
Attempts == 10

\* bound: how many _compile calls are made one after the other
MaxCompiles == 2

\* exit statuses of the compiler: 0, or a failure (an error exit, a crash)
ExitStatuses == {0, 1, 139}

InitCompile ==
    /\ CompIdle
    /\ EvalIdle
    /\ SemIdle
    /\ CnfIdle
    /\ TopIdle
    /\ ConcIdle
    /\ ConvIdle
    /\ DecIdle

\* mutant: the loop tests attempts_left only
whileCondition_ignoresSuccess(al, succ) == al /= 0

\* while attempts_left and not success
whileCondition(al, succ) == al /= 0 /\ ~succ

\* _compile is entered: the clause file is written, the loop variables are set
compileEnter ==
    /\ cpc \in {"idle", "returned", "raised"}
    /\ calls < MaxCompiles
    /\ cpc' = "loop"
    /\ calls' = calls + 1
    /\ attempts_left' = Attempts
    /\ success' = FALSE
    /\ artifact' = "-"
    /\ invocations' = 0
    /\ fails' = 0
    /\ UNCHANGED <<nnf_file, lastExit>>
    /\ Others("comp")

\* one pass of the loop body: subprocess.check_call(cmd), which raises
\* CalledProcessError for a non-zero exit status.  A compiler that exits 0 has
\* written its output file; one that fails may have left a part of it.
compileInvoke(status, wrote) ==
    /\ cpc = "loop"
    /\ whileCondition(attempts_left, success)
    /\ invocations' = invocations + 1
    /\ lastExit' = status
    /\ IF status = 0
       THEN /\ success' = TRUE
            /\ nnf_file' = ToString(calls)
            /\ UNCHANGED <<attempts_left, fails, cpc>>
       ELSE /\ attempts_left' = attempts_left - 1
            /\ fails' = fails + 1
            /\ nnf_file' = IF wrote THEN "partial" ELSE nnf_file
            /\ cpc' = IF attempts_left - 1 = 0 THEN "raised" ELSE "loop"
            /\ UNCHANGED success
    /\ UNCHANGED <<artifact, calls>>
    /\ Others("comp")

\* the loop is left
compileLoopExit ==
    /\ cpc = "loop"
    /\ ~whileCondition(attempts_left, success)
    /\ cpc' = "load"
    /\ UNCHANGED <<attempts_left, success, nnf_file, artifact, calls,
                   invocations, fails, lastExit>>
    /\ Others("comp")

\* return cls._load_nnf(nnf_file, cnf): the output file is read and decoded
compileLoad ==
    /\ cpc = "load"
    /\ artifact' = nnf_file
    /\ cpc' = "returned"
    /\ UNCHANGED <<attempts_left, success, nnf_file, calls, invocations, fails,
                   lastExit>>
    /\ Others("comp")

NextCompile ==
    \/ compileEnter
    \/ \E status \in ExitStatuses, wrote \in BOOLEAN : compileInvoke(status, wrote)
    \/ compileLoopExit
    \/ compileLoad

SpecCompile == InitCompile /\ [][NextCompile]_vars

\* C3: the compiler is invoked again only after a non-zero exit and at most
\* Attempts (10) times per call; a call that returns made fails + 1
\* invocations, fails < 10 of them failing, and returns what was decoded from
\* the output of its successful invocation; a call that raises made exactly 10
\* invocations, all failing, and decoded nothing.
C3_RetryBound ==
    /\ invocations <= Attempts
    /\ invocations <= fails + 1
    /\ invocations = fails + 1 => lastExit = 0
    /\ cpc \in {"load", "returned"} =>
          /\ fails < Attempts
          /\ invocations = fails + 1
    /\ cpc = "returned" => artifact = ToString(calls)
    /\ cpc = "raised" =>
          /\ invocations = Attempts
          /\ fails = Attempts
          /\ artifact = "-"
    /\ cpc = "loop" => artifact = "-"

\* C3 witness: a call returned after nine failed invocations, in a run where
\* an earlier call raised
C3_Witness ==
    /\ cpc = "returned"
    /\ fails = Attempts - 1
    /\ invocations = Attempts
    /\ calls = 2

-----------------------------------------------------------------------------
(* CNF.createFrom: the circuit is lowered to clause lines, node by node in  *)
(* construction order, then constraint by constraint; the header is put in  *)
(* front.                                                                   *)

\* bound: the nodes of an encoded circuit
MaxNodes == 3

\* the child lists of node i: one or two distinct signed references to
\* earlier nodes
EncoderChildLists(i) ==
    LET refs == {r \in -(i - 1)..(i - 1) : r /= 0}
    IN  {<<x>> : x \in refs} \cup {p \in refs \X refs : p[1] /= p[2]}

EncoderNodes(i) ==
    {Atom("-")} \cup {Inner(t, cs) : t \in {"conj", "disj"}, cs \in EncoderChildLists(i)}

RECURSIVE EncoderFormulas(_)
\* the circuits of n nodes
EncoderFormulas(n) ==
    IF n = 0 THEN {<<>>}
    ELSE {Append(f, nd) : f \in EncoderFormulas(n - 1), nd \in EncoderNodes(n)}

\* constraint lists: none; one constraint of one clause; two constraints, the
\* first of two clauses
ConstraintLists ==
    { <<>>,
      << <<<<-1, -2>>>> >>,
      << <<<<1, 2>>, <<-1, -2>>>>, <<<<-2, -3>>>> >> }

\* c.encodeCNF(): a constraint is given by the clauses it lowers itself to
encodeCNF(c) == c

InitEncoder ==
    /\ formula \in UNION {EncoderFormulas(n) : n \in 1..MaxNodes}
    /\ constraints \in ConstraintLists
    /\ epc = "nodes"
    /\ encIndex = 0
    /\ lines = <<>>
    /\ cnf_lines = <<>>
    /\ origin = <<>>
    /\ EvalIdle
    /\ SemIdle
    /\ CompIdle
    /\ TopIdle
    /\ ConcIdle
    /\ ConvIdle
    /\ DecIdle

Negated(cs) == [j \in 1..Len(cs) |-> -cs[j]]

\* mutant: the two-literal clauses of a disj do not negate the child
nodeLines_disjChildNotNegated(i, node) ==
    IF node.type = "conj"
    THEN <<(<<i>> \o Negated(node.children) \o <<0>>)>>
            \o [j \in 1..Len(node.children) |-> <<-i, node.children[j], 0>>]
    ELSE IF node.type = "disj"
    THEN <<(<<-i>> \o node.children \o <<0>>)>>
            \o [j \in 1..Len(node.children) |-> <<i, node.children[j], 0>>]
    ELSE <<>>

\* the lines the loop body appends for the node with id i
nodeLines(i, node) ==
    IF node.type = "conj"
    THEN <<(<<i>> \o Negated(node.children) \o <<0>>)>>
            \o [j \in 1..Len(node.children) |-> <<-i, node.children[j], 0>>]
    ELSE IF node.type = "disj"
    THEN <<(<<-i>> \o node.children \o <<0>>)>>
            \o [j \in 1..Len(node.children) |-> <<i, -node.children[j], 0>>]
    ELSE <<>>

\* the lines appended for one constraint: ' '.join(map(str, l)) + ' 0'
constraintLines(c) == [j \in 1..Len(encodeCNF(c)) |-> encodeCNF(c)[j] \o <<0>>]

\* mutant: new lines are put in front of the list
appendLines_inFront(ls, new) == new \o ls

\* lines.append, once per new line
appendLines(ls, new) == ls \o new

\* mutant: only the atoms are counted
atom_count_atomsOnly(f) == Cardinality(AtomsOf(f))

\* atom_count = len(formula)
atom_count(f) == len(f)

\* clause_count = len(lines)
clause_count(ls) == Len(ls)

\* 'p cnf %s %s' % (atom_count, clause_count), as its tokens
headerLine(a, c) == <<"p", "cnf", a, c>>

From(kind, i) == [kind |-> kind, index |-> i]

\* one pass of the loop over enumerate(formula)
encodeNode ==
    /\ epc = "nodes"
    /\ encIndex < Len(formula)
    /\ LET new == nodeLines(encIndex + 1, formula[encIndex + 1])
       IN  /\ lines' = appendLines(lines, new)
           /\ origin' = appendLines(origin, [j \in 1..Len(new) |-> From("node", encIndex + 1)])
    /\ encIndex' = encIndex + 1
    /\ UNCHANGED <<formula, constraints, epc, cnf_lines>>
    /\ Others("cnf")

\* the loop over the nodes is left
encodeNodesDone ==
    /\ epc = "nodes"
    /\ encIndex = Len(formula)
    /\ epc' = "constraints"
    /\ encIndex' = 0
    /\ UNCHANGED <<formula, constraints, lines, cnf_lines, origin>>
    /\ Others("cnf")

\* one pass of the loop over formula.constraints()
encodeConstraint ==
    /\ epc = "constraints"
    /\ encIndex < Len(constraints)
    /\ LET new == constraintLines(constraints[encIndex + 1])
       IN  /\ lines' = appendLines(lines, new)
           /\ origin' = appendLines(origin,
                                    [j \in 1..Len(new) |-> From("constraint", encIndex + 1)])
    /\ encIndex' = encIndex + 1
    /\ UNCHANGED <<formula, constraints, epc, cnf_lines>>
    /\ Others("cnf")

\* the header is computed and cnf.__lines is set
encodeFinish ==
    /\ epc = "constraints"
    /\ encIndex = Len(constraints)
    /\ cnf_lines' = <<headerLine(atom_count(formula), clause_count(lines))>> \o lines
    /\ epc' = "done"
    /\ UNCHANGED <<formula, constraints, encIndex, lines, origin>>
    /\ Others("cnf")

NextEncoder ==
    \/ encodeNode
    \/ encodeNodesDone
    \/ encodeConstraint
    \/ encodeFinish

SpecEncoder == InitEncoder /\ [][NextEncoder]_vars

-----------------------------------------------------------------------------
(* Properties of the encoded clause set.                                    *)

\* the clause lines of cnf.__lines (all but the header)
ClauseLines == Tail(cnf_lines)

RECURSIVE LinesFromUpTo(_, _)
\* the clause lines from source o among the first p, in order
LinesFromUpTo(o, p) ==
    IF p = 0 THEN <<>>
    ELSE IF origin[p] = o THEN Append(LinesFromUpTo(o, p - 1), ClauseLines[p])
    ELSE LinesFromUpTo(o, p - 1)

LinesFrom(o) == LinesFromUpTo(o, Len(ClauseLines))

\* the literals of a line: its tokens before the terminating 0
Literals(line) == {line[j] : j \in 1..(Len(line) - 1)}

WellFormed(line) ==
    /\ Len(line) >= 1
    /\ line[Len(line)] = 0
    /\ 0 \notin Literals(line)

\* the clause sets C7 names for node i
ClaimedClauses(i, node) ==
    LET cs == {node.children[j] : j \in 1..Len(node.children)}
    IN  IF node.type = "conj"
        THEN {{i} \cup {-c : c \in cs}} \cup {{-i, c} : c \in cs}
        ELSE IF node.type = "disj"
        THEN {{-i} \cup cs} \cup {{i, -c} : c \in cs}
        ELSE {}

\* truth of a signed reference, of a clause line and of a node's definition
\* under an assignment v of the node ids
Holds(v, r) == IF r > 0 THEN v[r] ELSE ~v[-r]
Satisfied(v, line) == \E l \in Literals(line) : Holds(v, l)
Defined(v, node) ==
    IF node.type = "conj" THEN \A j \in 1..Len(node.children) : Holds(v, node.children[j])
    ELSE \E j \in 1..Len(node.children) : Holds(v, node.children[j])

\* C7: for an AND node i with children c1..ck the encoder emits exactly the
\* k+1 clauses {i, -c1, ..., -ck} and {-i, cj}; for an OR node exactly
\* {-i, c1, ..., ck} and {i, -cj}; for an atom none.  So under every truth
\* assignment the clauses of node i are all satisfied if and only if the value
\* of i is the conjunction (disjunction) of its signed children.
C7_NodeClauses ==
    epc = "done" =>
        \A i \in 1..Len(formula) :
            LET node == formula[i]
                out  == LinesFrom(From("node", i))
            IN  /\ \A p \in 1..Len(out) : WellFormed(out[p])
                /\ Len(out) = IF node.type = "atom" THEN 0 ELSE Len(node.children) + 1
                /\ {Literals(out[p]) : p \in 1..Len(out)} = ClaimedClauses(i, node)
                /\ node.type /= "atom" =>
                      \A v \in [1..Len(formula) -> BOOLEAN] :
                          (\A p \in 1..Len(out) : Satisfied(v, out[p]))
                              <=> (v[i] <=> Defined(v, node))

\* C7 witness: a circuit with an atom, an OR node of two children and an AND
\* node of two children was encoded
C7_Witness ==
    /\ epc = "done"
    /\ \E i, j, k \in 1..Len(formula) :
          /\ formula[i].type = "atom"
          /\ formula[j].type = "disj" /\ Len(formula[j].children) = 2
          /\ formula[k].type = "conj" /\ Len(formula[k].children) = 2
          /\ Len(LinesFrom(From("node", k))) = 3

\* where a line comes in the order C8 states: the clauses of AND nodes, then
\* those of OR nodes, then those of constraints
GroupRank(o) ==
    IF o.kind = "constraint" THEN 3
    ELSE IF formula[o.index].type = "conj" THEN 1 ELSE 2

\* C8 as stated: all AND-node clauses come first, then all OR-node clauses,
\* then all constraint clauses, also when an OR node is built before an AND
\* node.
C8_GroupedByNodeType ==
    epc = "done" =>
        \A p, q \in 1..Len(ClauseLines) :
            p < q => GroupRank(origin[p]) <= GroupRank(origin[q])

\* C8 as amended: the clauses of the AND and OR nodes come first, in circuit
\* construction order whatever the node types (the clauses of node i before
\* those of node j for i < j), then the constraint clauses, in the order of
\* the constraints.
C8_ConstructionOrder ==
    epc = "done" =>
        /\ Len(origin) = Len(ClauseLines)
        /\ \A p, q \in 1..Len(ClauseLines) :
              p < q =>
                 /\ origin[p].kind = "constraint" => origin[q].kind = "constraint"
                 /\ origin[p].kind = origin[q].kind => origin[p].index <= origin[q].index
        /\ \A i \in 1..Len(formula) : formula[i].type /= "atom" =>
              \E p \in 1..Len(ClauseLines) : origin[p] = From("node", i)
        /\ \A c \in 1..Len(constraints) :
              LinesFrom(From("constraint", c)) = constraintLines(constraints[c])

\* C8 witness: an OR node was built before an AND node, there are constraints,
\* and the first clause line is the OR node's
C8_Witness ==
    /\ epc = "done"
    /\ Len(constraints) > 1
    /\ \E i, j \in 1..Len(formula) :
          /\ i < j
          /\ formula[i].type = "disj"
          /\ formula[j].type = "conj"
          /\ origin[1] = From("node", i)

\* C9 as stated: the header 'p cnf <a> <c>' has the number of atoms of the
\* circuit as <a> and the number of clause lines after it as <c>.
C9_HeaderCountsAtoms ==
    epc = "done" =>
        /\ cnf_lines[1][3] = Cardinality(AtomsOf(formula))
        /\ cnf_lines[1][4] = Len(cnf_lines) - 1

\* C9 as amended: <a> is the number of nodes of the circuit (atoms, AND and OR
\* nodes: the variables of the clause set), and <c> the number of clause lines
\* after the header, node clauses plus constraint clauses.
C9_HeaderCountsNodes ==
    epc = "done" =>
        /\ cnf_lines[1][1] = "p" /\ cnf_lines[1][2] = "cnf"
        /\ cnf_lines[1][3] = Len(formula)
        /\ cnf_lines[1][4] = Len(cnf_lines) - 1
        /\ \A p \in 1..Len(ClauseLines) : \A l \in Literals(ClauseLines[p]) :
              origin[p].kind = "node" => Abs(l) <= cnf_lines[1][3]

\* C9 witness: a circuit with AND/OR nodes and constraints was encoded
C9_Witness ==
    /\ epc = "done"
    /\ Len(constraints) > 0
    /\ Cardinality(AtomsOf(formula)) < Len(formula)
    /\ cnf_lines[1][4] > Len(constraints)

-----------------------------------------------------------------------------
(* NNF.evaluate: the top-level query entry point.  Each call builds a fresh *)
(* evaluator for the circuit, adds the evidence the names table declares,   *)
(* propagates, and then answers either every query of the table or the one  *)
(* node it was given.                                                       *)

\* bound: the longest names table
MaxNames == 2

LABEL_QUERY        == "query"
EvidenceLabel     == "evidence"
NegEvidenceLabel == "-evidence"

QueryNames == {"q1", "q2"}

\* an NNF holds what the compiler emitted
CompiledCircuits == {nd \in CircuitsEitherOrder(Probability) : IsCompiled(nd)}

\* the nodes queries are drawn on: the atoms and the root, of either sign
QueryRefs(nd) == {r \in NodeRefs(nd) : IsAtomRef(nd, r) \/ Abs(r) = len(nd)}

\* what one entry of the names table can be: a query, or a piece of evidence
\* on an atom
NameEntries(nd) ==
    {[name |-> n, node |-> r, label |-> LABEL_QUERY] :
        n \in QueryNames, r \in QueryRefs(nd)}
    \cup {[name |-> "e", node |-> r, label |-> l] :
            r \in AtomsOf(nd), l \in {EvidenceLabel, NegEvidenceLabel}}

NameTables(nd) ==
    UNION {[1..n -> NameEntries(nd)] : n \in 0..MaxNames}

\* getNames(label): the (name, node) pairs carrying the label, in table order
getNames(nm, label) == SelectSeq(nm, LAMBDA e : e.label = label)

\* the semiring argument of getEvaluator: None stands for the probability one
semiringOrDefault(sr) == IF sr = "None" THEN Probability ELSE sr

\* the evidence list NNF.getEvaluator builds: the 'evidence' names as they
\* are, then the '-evidence' names negated
declaredEvidence(nm) ==
    LET pos == getNames(nm, EvidenceLabel)
        neg == getNames(nm, NegEvidenceLabel)
    IN  [j \in 1..Len(pos) |-> pos[j].node] \o [j \in 1..Len(neg) |-> -neg[j].node]

\* NNF.getEvaluator: the cache and Z of the evaluator it returns
getEvaluator(nd, nm, sr) ==
    LET s  == semiringOrDefault(sr)
        pr == initializedCache(nd, s, declaredEvidence(nm))
    IN  [semiring |-> s, probs |-> pr, Z |-> getZ(nd, s, pr)]

\* the threshold below which a query value is taken for numerical noise
Epsilon == <<1, 1000000>>

reportValue_noThreshold(w) == w

\* the value the sweep stores: 0.0 if w < 1e-6, else w
reportValue(w) == IF RatLess(w, Epsilon) THEN <<0, 1>> ELSE w

\* result[name] = v
Put(m, k, v) == [x \in DOMAIN m \cup {k} |-> IF x = k THEN v ELSE m[x]]

EmptyResult == [x \in {} |-> <<0, 1>>]

RECURSIVE sweep(_, _, _, _, _, _, _)
\* the loop over getNames('query'), on an evaluator whose Z is not zero
sweep(nd, sr, pr, Zv, qs, j, result) ==
    IF j > Len(qs) THEN result
    ELSE LET run == evaluateRun(nd, sr, pr, qs[j].node)
             w   == normalize(sr, run.result, Zv)
         IN  sweep(nd, sr, run.cache, Zv, qs, j + 1,
                   Put(result, qs[j].name, reportValue(w)))

\* NNF.evaluate(index, semiring)
NNF_evaluate(nd, nm, idx, sr) ==
    LET ev == getEvaluator(nd, nm, sr)
        qs == getNames(nm, LABEL_QUERY)
    IN  IF ~idx.given
        THEN IF Len(qs) > 0 /\ normalizeRaises(ev.semiring, ev.Z)
             THEN Raised("ZeroDivisionError")
             ELSE Returned(sweep(nd, ev.semiring, ev.probs, ev.Z, qs, 1, EmptyResult))
        \* the else branch reads the loop variable of the other branch
        ELSE Raised("UnboundLocalError")

InitQuery ==
    /\ nodes \in CompiledCircuits
    /\ semiring = "-" /\ evidence = <<>> /\ probs = EmptyCache
    /\ Z = "-" /\ applied = <<>> /\ op = Call("-", 0, ReturnedNone)
    /\ names \in NameTables(nodes)
    /\ qarg = NoIndex
    /\ qres = [raised |-> "-", value |-> {}]
    /\ SemIdle
    /\ CompIdle
    /\ CnfIdle
    /\ ConcIdle
    /\ ConvIdle
    /\ DecIdle

\* evaluate(): the sweep over the queries
evaluateAll(sr) ==
    /\ qarg' = NoIndex
    /\ qres' = NNF_evaluate(nodes, names, NoIndex, sr)
    /\ UNCHANGED names
    /\ Others("top")

\* evaluate(index): one node
evaluateOne(r, sr) ==
    /\ qarg' = Index(r)
    /\ qres' = NNF_evaluate(nodes, names, Index(r), sr)
    /\ UNCHANGED names
    /\ Others("top")

NextQuery ==
    \/ \E sr \in {"None", Probability} : evaluateAll(sr)
    \/ \E r \in NodeRefs(nodes) : evaluateOne(r, "None")

SpecQuery == InitQuery /\ [][NextQuery]_vars

\* ---- properties of the query entry point ----

\* a sweep has returned its map
SweepReturned == ~qarg.given /\ qres.raised = ""

ResultMap == CHOOSE m \in qres.value : TRUE

\* the node of the last query entry carrying the name
LastNodeOf(n) ==
    LET qs == getNames(names, LABEL_QUERY)
        j  == CHOOSE k \in 1..Len(qs) :
                  /\ qs[k].name = n
                  /\ \A l \in (k + 1)..Len(qs) : qs[l].name /= n
    IN  qs[j].node

\* what evaluate(node) answers on the evaluator getEvaluator returns
FreshAnswer(r) ==
    LET ev == getEvaluator(nodes, names, "None")
    IN  CHOOSE v \in evaluateResult(nodes, ev.semiring, ev.probs, ev.Z, r).value : TRUE

QueriesOnAtoms ==
    \A k \in 1..Len(names) :
        names[k].label = LABEL_QUERY => IsAtomRef(nodes, names[k].node)

\* C5: the map a probability sweep returns has exactly one entry per
\* query-labelled name; every value lies in [0,1] and none strictly between 0
\* and 1e-6; and each value is what evaluate(node) answers for that name's
\* node, reported as 0.0 when that answer is below 1e-6.  (The last part is
\* stated for queries on atoms, where one evaluate call does not change what
\* the next one answers.)
C5_QuerySweep ==
    SweepReturned =>
        LET qs == getNames(names, LABEL_QUERY)
            m  == ResultMap
        IN  /\ DOMAIN m = {qs[k].name : k \in 1..Len(qs)}
            /\ \A n \in DOMAIN m :
                    /\ RatLeq(<<0, 1>>, m[n]) /\ RatLeq(m[n], <<1, 1>>)
                    /\ ~(RatLess(<<0, 1>>, m[n]) /\ RatLess(m[n], Epsilon))
            /\ QueriesOnAtoms =>
                 \A n \in DOMAIN m :
                    LET w == FreshAnswer(LastNodeOf(n))
                    IN  m[n] = IF RatLess(w, Epsilon) THEN <<0, 1>> ELSE w

\* a sweep that reported one value as exactly 0.0 although evaluate answered
\* a positive value for it, and another value as evaluate answered it
C5_Witness ==
    /\ SweepReturned
    /\ QueriesOnAtoms
    /\ \E n1, n2 \in DOMAIN ResultMap :
          /\ RatLess(<<0, 1>>, FreshAnswer(LastNodeOf(n1)))
          /\ ResultMap[n1] = <<0, 1>>
          /\ RatLess(<<0, 1>>, ResultMap[n2])
          /\ ResultMap[n2] = FreshAnswer(LastNodeOf(n2))

\* C6: evaluate(index = r) returns what the evaluator's evaluate(r) computes,
\* for every node reference r of the circuit
C6_EvaluateOneReturnsValue ==
    (qarg.given /\ qres.raised /= "-") =>
        LET ev == getEvaluator(nodes, names, "None")
        IN  qres = evaluateResult(nodes, ev.semiring, ev.probs, ev.Z, qarg.ref)

-----------------------------------------------------------------------------
(* Two callers of SimpleNNFEvaluator.evaluate at the same time.  A caller   *)
(* can be preempted between any two statements of evaluate, so each         *)
(* statement is a step of its own.                                          *)

\* bound: how many evaluate calls each caller makes
MaxCalls == 1

Threads == {1, 2}

\* the evaluator instance a caller uses
instanceOf_alwaysFirst(sh, t) == 1

instanceOf(sh, t) == IF sh THEN 1 ELSE t

NoCall(sr) ==
    [pc |-> "idle", node |-> 0, p |-> zero(sr), n |-> zero(sr),
     result |-> zero(sr), ret |-> ReturnedNone, calls |-> 0]

\* evidence lists a caller may have declared before initialize()
EvidenceLists(nd) == {<<>>} \cup {<<r>> : r \in EvidenceRefs(nd)}

\* both evaluators are built on the same circuit with the same evidence and
\* initialized before the callers start
InitConcurrent ==
    /\ semiring \in Semirings
    /\ nodes \in Circuits(semiring)
    /\ evidence \in EvidenceLists(nodes)
    /\ applied = evidence
    /\ probs = EmptyCache
    /\ Z = getZ(nodes, semiring, initializedCache(nodes, semiring, evidence))
    /\ op = Call("initialize", 0, ReturnedNone)
    /\ shared \in BOOLEAN
    /\ caches = [i \in Threads |-> initializedCache(nodes, semiring, evidence)]
    /\ thr = [t \in Threads |-> NoCall(semiring)]
    /\ SemIdle
    /\ CompIdle
    /\ CnfIdle
    /\ TopIdle
    /\ ConvIdle
    /\ DecIdle

Mine(t) == caches[instanceOf(shared, t)]

Step(t, local, cache) ==
    /\ thr' = [thr EXCEPT ![t] = local]
    /\ caches' = [caches EXCEPT ![instanceOf(shared, t)] = cache]
    /\ UNCHANGED shared
    /\ Others("conc")

\* a caller enters evaluate(node), node an atom reference
evaluateCall(t, node) ==
    /\ thr[t].pc \in {"idle", "done"}
    /\ thr[t].calls < MaxCalls
    /\ Step(t, [NoCall(semiring) EXCEPT !.pc = "p", !.node = node,
                                        !.calls = thr[t].calls + 1], Mine(t))

\* p = self.getWeight(abs(node))
evaluateGetP(t) ==
    /\ thr[t].pc = "p"
    /\ Step(t, [thr[t] EXCEPT !.pc = "n",
                  !.p = getWeight(nodes, semiring, Mine(t), Abs(thr[t].node))],
            Mine(t))

\* n = self.getWeight(-abs(node))
evaluateGetN(t) ==
    /\ thr[t].pc = "n"
    /\ Step(t, [thr[t] EXCEPT !.pc = "pin",
                  !.n = getWeight(nodes, semiring, Mine(t), -Abs(thr[t].node))],
            Mine(t))

\* self.setValue(abs(node), (node > 0))
evaluatePin(t) ==
    /\ thr[t].pc = "pin"
    /\ Step(t, [thr[t] EXCEPT !.pc = "walk"],
            setValue(nodes, semiring, Mine(t), Abs(thr[t].node), thr[t].node > 0))

\* result = self.getWeight(len(self.__nnf))
evaluateWalk(t) ==
    /\ thr[t].pc = "walk"
    /\ Step(t, [thr[t] EXCEPT !.pc = "reset",
                  !.result = getWeight(nodes, semiring, Mine(t), len(nodes))],
            Mine(t))

\* self.resetValue(abs(node), p, n)
evaluateReset(t) ==
    /\ thr[t].pc = "reset"
    /\ Step(t, [thr[t] EXCEPT !.pc = "return"],
            resetValue(Mine(t), Abs(thr[t].node), thr[t].p, thr[t].n))

\* return self.semiring.normalize(result, self.Z)
evaluateReturn(t) ==
    /\ thr[t].pc = "return"
    /\ Step(t, [thr[t] EXCEPT !.pc = "done",
                  !.ret = IF normalizeRaises(semiring, Z)
                          THEN Raised("ZeroDivisionError")
                          ELSE Returned(normalize(semiring, thr[t].result, Z))],
            Mine(t))

NextConcurrent ==
    \/ \E t \in Threads, node \in EvidenceRefs(nodes) : evaluateCall(t, node)
    \/ \E t \in Threads : evaluateGetP(t)
    \/ \E t \in Threads : evaluateGetN(t)
    \/ \E t \in Threads : evaluatePin(t)
    \/ \E t \in Threads : evaluateWalk(t)
    \/ \E t \in Threads : evaluateReset(t)
    \/ \E t \in Threads : evaluateReturn(t)

SpecConcurrent == InitConcurrent /\ [][NextConcurrent]_vars

\* ---- properties of concurrent callers ----

\* the cache initialize() left
PostInitialize == initializedCache(nodes, semiring, applied)

\* what the call of caller t returns when no other call runs meanwhile
Sequential(t) == evaluateResult(nodes, semiring, PostInitialize, Z, thr[t].node)

WrongValue(t) == thr[t].pc = "done" /\ thr[t].ret /= Sequential(t)

AllReturned == \A t \in Threads : thr[t].pc = "done"

WrongCache ==
    /\ AllReturned
    /\ \E t \in Threads :
          caches[instanceOf(shared, t)][Abs(thr[t].node)]
              /= PostInitialize[Abs(thr[t].node)]

\* C12: with one evaluator instance per caller, however the steps of the two
\* calls interleave, every call returns its sequential result and, once both
\* calls returned, every cache is the post-initialize cache.  (That a shared
\* evaluator reaches a state with a wrong value and a wrong cache entry is
\* C12_Witness.)
C12_InstancePerCallerIsSafe ==
    ~shared =>
        /\ \A t \in Threads : ~WrongValue(t)
        /\ AllReturned => \A t \in Threads : caches[t] = PostInitialize

\* C12 witness: on a shared evaluator both calls returned, one of them with a
\* value that is not its sequential result, and the cache entry of a queried
\* atom is not its post-initialize value
C12_Witness ==
    /\ shared
    /\ AllReturned
    /\ \E t \in Threads : WrongValue(t)
    /\ WrongCache

\* caller t has pinned its node and not yet restored it
Pinning(t) == thr[t].pc \in {"walk", "reset"}

\* C16 as stated: while the root weight is recomputed, the cache entry of |q|
\* is (one(), zero()) for a positive q and (zero(), one()) for a negative q
C16_PinIsUnitPair ==
    \A t \in Threads :
        (~shared /\ Pinning(t))
            => caches[t][Abs(thr[t].node)] = PinOf(semiring, thr[t].node)

\* C16 as the code has it: while the root weight is recomputed, the cache
\* entry of |q| is (p, zero()) for a positive q and (zero(), n) for a negative
\* q, where (p, n) is the pair weight(|q|), weight(-|q|) captured at the start
\* of the call
C16_PinKeepsQueriedWeight ==
    \A t \in Threads :
        (~shared /\ Pinning(t))
            => caches[t][Abs(thr[t].node)] =
                  IF thr[t].node > 0 THEN <<thr[t].p, zero(semiring)>>
                  ELSE <<zero(semiring), thr[t].n>>

\* C16 witness: a caller has pinned an atom whose declared weight is neither
\* one() nor zero(), and the pinned entry is not a unit/annihilator pair
C16_Witness ==
    \E t \in Threads :
        /\ ~shared
        /\ Pinning(t)
        /\ thr[t].node > 0
        /\ thr[t].p \notin {one(semiring), zero(semiring)}
        /\ caches[t][Abs(thr[t].node)] = <<thr[t].p, zero(semiring)>>

-----------------------------------------------------------------------------
(* ProbLog.registerTransformation, findPaths and convert.  findPaths is a   *)
(* recursive generator: each active generator is a frame holding its target *)
(* d, its position i in transformations[d] (0: just entered) and its stack. *)

\* bound: how many transformations are registered
MaxTransformations == 2

\* bound: the interpreter's limit on nested generator calls (it raises an
\* error when a call would exceed it)
RecursionLimit == 5

Classes == {"A", "B", "C"}

\* an action: a function given at registration, or None
Actions == {"None", "f"}

\* the sets of classes an object can be an instance of ("B" extends "A")
Kinds == {{"A"}, {"C"}, {"A", "B"}}

\* isinstance(obj, c)
isinstance(obj, c) == c \in obj.kinds

\* cls.transformations[d]: the (src, action) pairs registered for target d
transformationsOf(reg, d) == SelectSeq(reg, LAMBDA e : e.target = d)

\* what calling action(current_obj, c()) gives: an object of class c that
\* remembers the action that made it
applyAction(action, obj, c) ==
    [kinds |-> {c}, trace |-> Append(obj.trace, <<action, c>>)]

InitConvert ==
    /\ ConvIdle
    /\ DecIdle
    /\ EvalIdle
    /\ SemIdle
    /\ CompIdle
    /\ CnfIdle
    /\ TopIdle
    /\ ConcIdle

\* ProbLog.registerTransformation(src, target, action)
registerTransformation(s, target, action) ==
    /\ kpc = "idle"
    /\ Len(transformations) < MaxTransformations
    /\ transformations' =
           Append(transformations, [src |-> s, target |-> target, action |-> action])
    /\ UNCHANGED <<csrc, ctarget, cmode, frames, found, kpc, cres>>
    /\ Others("conv")

NewFrame(d, stack) == [d |-> d, i |-> 0, stack |-> stack]

\* a call of findPaths(src, target) that is run to its end, or of
\* convert(src, target)
callSearch(mode, kinds, target) ==
    /\ kpc = "idle"
    /\ kpc' = "search"
    /\ cmode' = mode
    /\ csrc' = [kinds |-> kinds, trace |-> <<>>]
    /\ ctarget' = target
    /\ frames' = <<NewFrame(target, <<>>)>>
    /\ UNCHANGED <<transformations, found, cres>>
    /\ Others("conv")

InStack(c, stack) == \E j \in 1..Len(stack) : stack[j] = c

notInStack_never(c, stack) == TRUE

\* not s in stack
notInStack(c, stack) == ~InStack(c, stack)

\* the entry the generator of frame f is at
EntryOf(reg, f) == transformationsOf(reg, f.d)[f.i]

RECURSIVE suffixOf(_, _, _)
\* what the generators above the innermost add to a path: (action, d) of each,
\* from frame j outwards
suffixOf(reg, fs, j) ==
    IF j = 0 THEN <<>>
    ELSE <<EntryOf(reg, fs[j]).action, fs[j].d>> \o suffixOf(reg, fs, j - 1)

\* the path the outermost generator yields when the innermost yields (d,)
yieldedPath(reg, fs) == <<fs[Len(fs)].d>> \o suffixOf(reg, fs, Len(fs) - 1)

\* the innermost generator ends; the one above it moves to its next entry
popFrame(fs) ==
    IF Len(fs) = 1 THEN <<>>
    ELSE [j \in 1..(Len(fs) - 1) |->
             IF j = Len(fs) - 1 THEN [fs[j] EXCEPT !.i = fs[j].i + 1] ELSE fs[j]]

RECURSIVE applyPath(_, _, _)
\* the while loop of convert over path[1:], from position j of the path
applyPath(obj, path, j) ==
    IF j > Len(path) THEN Returned(obj)
    ELSE IF path[j + 1] /= "None"
         THEN IF path[j] = "None" THEN Raised("TypeError")
              ELSE applyPath(applyAction(path[j], obj, path[j + 1]), path, j + 2)
         ELSE Raised("AttributeError")

\* convert's handling of the first path findPaths yields
convertAlong(obj, path) == applyPath(obj, path, 2)

\* the innermost generator was just entered and src is an instance of its
\* target: it yields (target,), and so does every generator above it
findPathsYield ==
    /\ kpc = "search"
    /\ LET f == frames[Len(frames)]
           path == yieldedPath(transformations, frames)
       IN  /\ f.i = 0
           /\ isinstance(csrc, f.d)
           /\ found' = Append(found, path)
           /\ IF cmode = "convert"
              THEN /\ cres' = convertAlong(csrc, path)
                   /\ frames' = <<>>
                   /\ kpc' = "done"
              ELSE /\ frames' = popFrame(frames)
                   /\ kpc' = IF frames' = <<>> THEN "done" ELSE "search"
                   /\ UNCHANGED cres
    /\ UNCHANGED <<transformations, csrc, ctarget, cmode>>
    /\ Others("conv")

\* ... and src is not an instance of its target: the loop over
\* transformations[d] starts
findPathsElse ==
    /\ kpc = "search"
    /\ frames[Len(frames)].i = 0
    /\ ~isinstance(csrc, frames[Len(frames)].d)
    /\ frames' = [frames EXCEPT ![Len(frames)].i = 1]
    /\ UNCHANGED <<transformations, csrc, ctarget, cmode, found, kpc, cres>>
    /\ Others("conv")

\* one iteration of the loop: skip an entry whose source is in the stack,
\* else enter findPaths(src, s, stack + (s,))
findPathsLoop ==
    /\ kpc = "search"
    /\ LET f == frames[Len(frames)]
       IN  /\ f.i >= 1
           /\ f.i <= Len(transformationsOf(transformations, f.d))
           /\ LET e == EntryOf(transformations, f)
              IN  IF notInStack(e.src, f.stack)
                  THEN IF Len(frames) >= RecursionLimit
                       THEN /\ kpc' = "crashed"
                            /\ cres' = Raised("RuntimeError")
                            /\ UNCHANGED frames
                       ELSE /\ frames' = Append(frames,
                                            NewFrame(e.src, Append(f.stack, e.src)))
                            /\ UNCHANGED <<kpc, cres>>
                  ELSE /\ frames' = [frames EXCEPT ![Len(frames)].i = f.i + 1]
                       /\ UNCHANGED <<kpc, cres>>
    /\ UNCHANGED <<transformations, csrc, ctarget, cmode, found>>
    /\ Others("conv")

\* the loop of the innermost generator is over: it ends; when it was the
\* outermost one the search is over, and convert raises as no path was found
findPathsExhausted ==
    /\ kpc = "search"
    /\ LET f == frames[Len(frames)]
       IN  /\ f.i >= 1
           /\ f.i > Len(transformationsOf(transformations, f.d))
    /\ frames' = popFrame(frames)
    /\ kpc' = IF frames' = <<>> THEN "done" ELSE "search"
    /\ cres' = IF frames' = <<>> /\ cmode = "convert"
               THEN Raised("ProbLogError") ELSE cres
    /\ UNCHANGED <<transformations, csrc, ctarget, cmode, found>>
    /\ Others("conv")

NextConvert ==
    \/ \E s \in Classes, t \in Classes, a \in Actions : registerTransformation(s, t, a)
    \/ \E m \in {"findPaths", "convert"}, k \in Kinds, t \in Classes : callSearch(m, k, t)
    \/ findPathsYield
    \/ findPathsElse
    \/ findPathsLoop
    \/ findPathsExhausted

\* the interpreter keeps running the call
SpecConvert == InitConvert /\ [][NextConvert]_vars /\ WF_vars(NextConvert)

\* ---- properties of the conversion search ----

RECURSIVE Closure(_, _)
\* the classes that chains of registered transformations lead to from a
\* class in S
Closure(reg, S) ==
    LET T == S \cup {reg[j].target : j \in {k \in 1..Len(reg) : reg[k].src \in S}}
    IN  IF T = S THEN S ELSE Closure(reg, T)

\* a chain of registered transformations leads from a class src is an
\* instance of to target
ChainExists == ctarget \in Closure(transformations, csrc.kinds)

\* src after the steps of a path were applied to it, in order
ObjectAlong(path) ==
    IF Len(path) = 1 THEN csrc
    ELSE [kinds |-> {path[Len(path)]},
          trace |-> [k \in 1..((Len(path) - 1) \div 2) |->
                        <<path[2 * k], path[2 * k + 1]>>]]

ConvertDone == cmode = "convert" /\ kpc = "done"

\* C13: convert raises ProbLogError exactly when no chain of registered
\* transformations leads from a class of src to target; when there is one,
\* the actions of the first path found are applied in order and the object
\* they produce is returned; src itself is returned when it is an instance of
\* target already.
C13_ConvertContract ==
    ConvertDone =>
        /\ cres.raised = "ProbLogError" <=> ~ChainExists
        /\ ChainExists => cres = Returned(ObjectAlong(found[1]))
        /\ isinstance(csrc, ctarget) => cres = Returned(csrc)

\* the part of C13 that holds of the code: the error condition, the identity
\* case, and the result along a path all of whose actions are functions
ConvertContractWithFunctions ==
    ConvertDone =>
        /\ cres.raised = "ProbLogError" <=> ~ChainExists
        /\ isinstance(csrc, ctarget) => cres = Returned(csrc)
        /\ ChainExists =>
              IF \E j \in 1..Len(found[1]) : found[1][j] = "None"
              THEN cres = Raised("TypeError")
              ELSE cres = Returned(ObjectAlong(found[1]))

\* no class occurs twice in the stack of an active generator
NoSourceTwice ==
    \A k \in 1..Len(frames) :
        \A i, j \in 1..Len(frames[k].stack) :
            i /= j => frames[k].stack[i] /= frames[k].stack[j]

\* C20: whatever was registered, self-loops and cycles included, a search that
\* was started finishes: findPaths has yielded finitely many paths and ended,
\* or convert has returned or raised; the nesting of generators never reaches
\* the interpreter's recursion limit, and no class is entered twice as a
\* source along one branch of the search.
C20_SearchTerminates ==
    /\ [](NoSourceTwice /\ kpc /= "crashed")
    /\ (kpc = "search") ~> (kpc = "done")

\* C20 witness: a search finished on a registry with a cycle through the
\* target (X to target and target to X) that the search had to walk, as src
\* is an instance of neither class
C20_Witness ==
    /\ kpc = "done"
    /\ \E i, j \in 1..Len(transformations) :
          /\ transformations[i].target = ctarget
          /\ transformations[j].src = ctarget
          /\ transformations[j].target = transformations[i].src
          /\ transformations[i].src /= ctarget
          /\ ~isinstance(csrc, ctarget)
          /\ ~isinstance(csrc, transformations[i].src)

-----------------------------------------------------------------------------
(* NNF._load_nnf: the decoder of the compiler's output.  A line is its      *)
(* leading token and the integer tokens after it; tok = "" is a line with   *)
(* no token at all.                                                         *)

\* bound: how many lines the file has
MaxLines == 4

Line(tok, args) == [tok |-> tok, args |-> args]

\* child index lists of A and O lines
ChildLists == {<<0>>, <<1>>, <<0, 1>>, <<1, 0>>, <<2>>, <<1, 2>>}

\* the lines a file is made of: the header, leaves, AND lines 'A k c1..ck',
\* OR lines 'O j k c1..ck', a line with an unknown leading token, a blank line
FileLines ==
    {Line("nnf", <<>>), Line("c", <<>>), Line("", <<>>)}
    \cup {Line("L", <<l>>) : l \in {1, -2}}
    \cup {Line("A", <<Len(cs)>> \o cs) : cs \in ChildLists}
    \cup {Line("O", <<0, Len(cs)>> \o cs) : cs \in ChildLists}

\* cnf.getWeights(): atom 1 has a weight, atom 2 has none
cnfWeights == [a \in {1} |-> "w1"]

\* weights.get(abs(name), True)
weightOf(a) == IF a \in DOMAIN cnfWeights THEN cnfWeights[a] ELSE "True"

\* cnf.getNamesWithLabel()
cnfNames ==
    <<[name |-> "q", node |-> 1, label |-> "query"],
      [name |-> "e", node |-> -2, label |-> "evidence"]>>

\* names_inv[node]: the (name, label) pairs of the entries keyed by node
names_inv(node) == SelectSeq(cnfNames, LAMBDA e : e.node = node)

\* LogicFormula.addAtom / addAnd / addOr: the node is appended, its id is the
\* new length
addNode(nd, node) == Append(nd, node)

\* LogicFormula.addName for every (name, label) of a list
addNames(nm, entries, ref) ==
    nm \o [j \in 1..Len(entries) |->
              [name |-> entries[j].name, node |-> ref, label |-> entries[j].label]]

NewLoad ==
    [nodes |-> <<>>, line2node |-> <<>>, lnum |-> 0, rename |-> <<>>,
     names |-> <<>>, status |-> "reading"]

\* mutant: an O line is read like an A line
childTokens_fromSecond(line) == Tail(line.args)

\* the child tokens of an A line (line[2:]) or an O line (line[3:])
childTokens(line) ==
    IF line.tok = "A" THEN Tail(line.args) ELSE Tail(Tail(line.args))

\* mutant: an unknown line takes a line index
skipLine_countsLine(st) == [st EXCEPT !.lnum = st.lnum + 1]

\* a line with an unknown leading token: a message is printed
skipLine(st) == st

\* the 'L' branch
loadLeaf(st, line) ==
    LET name  == line.args[1]
        nd    == addNode(st.nodes, Atom(weightOf(Abs(name))))
        atom  == Len(nd)
        node  == IF name < 0 THEN -atom ELSE atom
        named == names_inv(Abs(name))
    IN  [st EXCEPT !.nodes = nd,
                   !.rename = Put(st.rename, Abs(name), atom),
                   !.line2node = Put(st.line2node, st.lnum, node),
                   !.names = addNames(st.names, named,
                                      IF name < 0 THEN -node ELSE node),
                   !.lnum = st.lnum + 1]

\* the 'A' and 'O' branches
loadInner(st, line, type) ==
    LET xs == childTokens(line)
    IN  IF \E k \in 1..Len(xs) : xs[k] \notin DOMAIN st.line2node
        THEN [st EXCEPT !.status = "KeyError"]
        ELSE LET children == [k \in 1..Len(xs) |-> st.line2node[xs[k]]]
                 nd       == addNode(st.nodes, Inner(type, children))
             IN  [st EXCEPT !.nodes = nd,
                            !.line2node = Put(st.line2node, st.lnum, Len(nd)),
                            !.lnum = st.lnum + 1]

\* the body of the loop over the lines of the file
loadLine(st, line) ==
    IF line.tok = "" THEN [st EXCEPT !.status = "IndexError"]
    ELSE IF line.tok = "nnf" THEN st
    ELSE IF line.tok = "L" THEN loadLeaf(st, line)
    ELSE IF line.tok = "A" THEN loadInner(st, line, "conj")
    ELSE IF line.tok = "O" THEN loadInner(st, line, "disj")
    ELSE skipLine(st)

InitDecoder ==
    /\ DecIdle
    /\ EvalIdle
    /\ SemIdle
    /\ CompIdle
    /\ CnfIdle
    /\ TopIdle
    /\ ConcIdle
    /\ ConvIdle

Loaded(st) ==
    /\ dnodes' = st.nodes
    /\ line2node' = st.line2node
    /\ lnum' = st.lnum
    /\ rename' = st.rename
    /\ dnames' = st.names
    /\ dstatus' = st.status

Current ==
    [nodes |-> dnodes, line2node |-> line2node, lnum |-> lnum, rename |-> rename,
     names |-> dnames, status |-> dstatus]

\* _load_nnf is entered: empty NNF, the file is opened
loadEnter ==
    /\ dstatus = "-"
    /\ Loaded(NewLoad)
    /\ UNCHANGED dtext
    /\ Others("dec")

\* the next line of the file is read and handled
loadNext(line) ==
    /\ dstatus = "reading"
    /\ Len(dtext) < MaxLines
    /\ dtext' = Append(dtext, line)
    /\ Loaded(loadLine(Current, line))
    /\ Others("dec")

\* the file is at its end: the NNF is returned
loadReturn ==
    /\ dstatus = "reading"
    /\ dstatus' = "returned"
    /\ UNCHANGED <<dtext, dnodes, line2node, lnum, rename, dnames>>
    /\ Others("dec")

NextDecoder ==
    \/ loadEnter
    \/ \E line \in FileLines : loadNext(line)
    \/ loadReturn

SpecDecoder == InitDecoder /\ [][NextDecoder]_vars

\* ---- properties of the decoder ----

IsDirective(line) == line.tok \in {"L", "A", "O"}

\* the L/A/O lines of the text read so far
Directives == SelectSeq(dtext, IsDirective)

\* the child indices an A or O line lists
ListedChildren(line) ==
    IF line.tok = "A" THEN SubSeq(line.args, 2, Len(line.args))
    ELSE SubSeq(line.args, 3, Len(line.args))

\* the reference the x-th L/A/O line (counted from 0) stands for: its node,
\* negated for a leaf with a negative literal
ReferenceOf(x) ==
    IF Directives[x + 1].tok = "L" /\ Directives[x + 1].args[1] < 0
    THEN -(x + 1) ELSE x + 1

Decoding == dstatus \in {"reading", "returned"}

\* the line read last lists a child index that no earlier L/A/O line has
ForwardReference ==
    /\ Len(dtext) > 0
    /\ dtext[Len(dtext)].tok \in {"A", "O"}
    /\ \E k \in 1..Len(ListedChildren(dtext[Len(dtext)])) :
          ListedChildren(dtext[Len(dtext)])[k] \notin 0..(Len(Directives) - 2)

\* C18: every L/A/O line makes one node and takes the next line index, other
\* lines (the header included) take none; each child of an AND/OR node is the
\* reference of the earlier L/A/O line its index names, so it refers to a
\* node made before its parent and the circuit is acyclic; and a line that
\* names an index no earlier line has makes the decoding fail with no node
\* added.
C18_ChildrenAreEarlierLines ==
    /\ Decoding =>
          /\ lnum = Len(Directives)
          /\ Len(dnodes) = Len(Directives)
          /\ \A m \in 1..Len(dnodes) :
                IF Directives[m].tok = "L" THEN dnodes[m].type = "atom"
                ELSE LET xs == ListedChildren(Directives[m])
                     IN  /\ dnodes[m].type =
                               (IF Directives[m].tok = "A" THEN "conj" ELSE "disj")
                         /\ Len(dnodes[m].children) = Len(xs)
                         /\ \A k \in 1..Len(xs) :
                               /\ xs[k] \in 0..(m - 2)
                               /\ dnodes[m].children[k] = ReferenceOf(xs[k])
                               /\ Abs(dnodes[m].children[k]) < m
    /\ dstatus = "KeyError" <=> (dstatus \notin {"-", "returned"} /\ ForwardReference)
    /\ dstatus = "KeyError" => Len(dnodes) = Len(Directives) - 1

\* C18 witness: after the header, a negative leaf and a positive leaf, an A or
\* O line listing both was decoded
C18_Witness ==
    /\ Decoding
    /\ Len(dtext) > 3
    /\ dtext[1].tok = "nnf"
    /\ Len(dnodes) = 3
    /\ dnodes[Len(dnodes)].type \in {"conj", "disj"}
    /\ \E k \in 1..Len(dnodes[Len(dnodes)].children) :
          dnodes[Len(dnodes)].children[k] < 0

IsUnknown(line) == line.tok \notin {"", "nnf", "L", "A", "O"}

RECURSIVE loadAll(_, _, _)
\* the decoder run over a text from line j on
loadAll(st, text, j) ==
    IF j > Len(text) \/ st.status /= "reading" THEN st
    ELSE loadAll(loadLine(st, text[j]), text, j + 1)

\* C19: a line whose leading token is none of nnf, L, A, O does not make the
\* decoding fail, makes no node and takes no line index: what is decoded is
\* what is decoded from the text without these lines.
C19_UnknownLinesAreSkipped ==
    dstatus \in {"reading", "KeyError", "IndexError"} =>
        /\ Current = loadAll(NewLoad, SelectSeq(dtext, LAMBDA l : ~IsUnknown(l)), 1)
        /\ (Len(dtext) > 0 /\ IsUnknown(dtext[Len(dtext)])) => dstatus = "reading"

\* C19 witness: an unknown line between a leaf and an A or O line that lists
\* the leaf
C19_Witness ==
    /\ dstatus = "reading"
    /\ Len(dtext) = 3
    /\ dtext[1].tok = "L"
    /\ IsUnknown(dtext[2])
    /\ dtext[3].tok \in {"A", "O"}
    /\ Len(dnodes) = 2

=============================================================================
